---- MODULE Spec2Model ----
(***************************************************************************)
(* Model of the monitoring loop of src/main.py (function main) and of the  *)
(* message formatter format_appointment_message.                           *)
(*                                                                         *)
(* The program is one sequential process.  pc is the position of that      *)
(* process in main; the checkers, the notifier and the clock are external  *)
(* calls whose outcome (a returned value or a raised exception) is chosen  *)
(* nondeterministically.  Variables named as in the source are program     *)
(* state; the others record what has happened (calls made, messages        *)
(* handed to the notifier) so that properties can speak about it.          *)
(***************************************************************************)
EXTENDS Integers, Sequences, FiniteSets, TLC

(* ------------------------------ bounds -------------------------------- *)

\* number of loop iterations explored
MaxCycles == 5

\* longest list a checker returns
MaxLen == 2

(* ------------------------- appointment records ------------------------ *)

\* dict.get(key) of a key that is not in the dict gives None
Absent == "<None>"

\* a confidence value that is not a string (a number), as a loosely typed
\* record may carry
NotAString == "<float 0.9>"

Fields == {"location", "date", "time", "link", "confidence", "source", "note"}

EmptyRecord == [f \in Fields |-> Absent]

ScenarioRecord == [EmptyRecord EXCEPT !["date"] = "2024-05-01", !["time"] = "09:00"]

MalformedRecord == [EmptyRecord EXCEPT !["confidence"] = NotAString]

\* the records the checkers of the loop model draw their results from
LoopRecords == {EmptyRecord, ScenarioRecord, MalformedRecord}

SeqsUpTo(S, n) == UNION {[1..k -> S] : k \in 0..n}

\* what check_appointments / check_availability may return
CheckerResults == SeqsUpTo(LoopRecords, MaxLen)

(* ------------------------------ formatter ----------------------------- *)

\* Python truthiness of a field value: None and the empty string are false
Truthy(v) == v # Absent /\ v # ""

\* variant: the default of .get is not applied
Get_NoDefault(appointment, key, default) == appointment[key]

\* appointment.get(key, default)
Get(appointment, key, default) ==
    IF appointment[key] = Absent THEN default ELSE appointment[key]

IsString(v) == v # Absent /\ v # NotAString

\* str.title() on the confidence values
Title(s) ==
    CASE s = "low" -> "Low"
      [] s = "medium" -> "Medium"
      [] s = "high" -> "High"
      [] OTHER -> s

ConfidenceEmoji(c) ==
    IF c = "low" THEN "red" ELSE IF c = "medium" THEN "yellow" ELSE "green"

\* line 137: .title() of a value that is not a string raises AttributeError
FormatRaises(appointment) ==
    Truthy(appointment["confidence"]) /\ ~IsString(appointment["confidence"])

\* the message as the sequence of its lines, each <<label, text>>
format_appointment_message(appointment) ==
    <<  <<"header", "VISA APPOINTMENT AVAILABLE!">>,
        <<"Location", Get(appointment, "location", "Italy Visa Center Morocco")>>,
        <<"Date", Get(appointment, "date", "Not specified")>>,
        <<"Time", Get(appointment, "time", "Not specified")>> >>
    \o (IF Truthy(appointment["link"])
        THEN << <<"Book Now", appointment["link"]>> >> ELSE << >>)
    \o (IF Truthy(appointment["confidence"])
        THEN << <<ConfidenceEmoji(appointment["confidence"]) \o " Confidence",
                  Title(appointment["confidence"])>> >>
        ELSE << >>)
    \o (IF Truthy(appointment["source"])
        THEN << <<"Source", appointment["source"]>> >> ELSE << >>)
    \o <<  <<"Action Required", "Log in to VFS Global immediately to book this slot!">>,
           <<"Website", "https://visa.vfsglobal.com/mar/fr/ita/dashboard">>,
           <<"Found at", "<now>">> >>
    \o (IF Truthy(appointment["note"])
        THEN << <<"Note", appointment["note"]>> >> ELSE << >>)

(* ------------------------ decisions of the loop ----------------------- *)

max_consecutive_errors == 5

\* variant: check_appointments is called whatever the flag
ShouldCallPrimary_Always(uem) == TRUE

\* line 61
ShouldCallPrimary(uem) == ~uem

\* variant: the assignment of line 67 is missing
FlagAfterPrimaryRaise_Missing(uem) == uem

\* line 67: the flag after check_appointments raised
FlagAfterPrimaryRaise(uem) == TRUE

\* variant: check_availability is called in every cycle
ShouldCallFallback_Always(uem, appts) == TRUE

\* variant: check_availability is called only after an empty primary result
ShouldCallFallback_EmptyOnly(uem, appts) == ~uem /\ appts = << >>

\* variant: check_availability is also called after a primary list of one record
ShouldCallFallback_ShortList(uem, appts) == uem \/ Len(appts) <= 1

\* line 69
ShouldCallFallback(uem, appts) == uem \/ appts = << >>

\* lines 72-73
Extend(appts, enhanced) ==
    IF enhanced # << >> THEN appts \o enhanced ELSE appts

\* variant: the try of line 70 is missing, the exception reaches line 92
AfterFallbackRaise_Uncaught == "except"

\* lines 75-76: an exception of check_availability is caught; the cycle goes on
AfterFallbackRaise == "notify"

\* variant: the loop skips every second record
NextIndex_Skip(i) == i + 2

\* line 82: the for loop moves to the next record
NextIndex(i) == i + 1

\* variant: the reset of line 90 is missing
ErrorsAfterSuccess_Keep(ce) == ce

\* line 90
ErrorsAfterSuccess(ce) == 0

\* variant: a failure counts twice
ErrorsAfterFailure_Double(ce) == ce + 2

\* line 93
ErrorsAfterFailure(ce) == ce + 1

\* variant: the warning is sent at the third failure only
ShouldWarn_Once(ce) == ce = 3

\* line 98
ShouldWarn(ce) == ce >= 3

\* variant: the monitor stops one failure early
ShouldStop_Early(ce) == ce >= max_consecutive_errors - 1

\* variant: the monitor stops at the warning threshold
ShouldStop_AtWarning(ce) == ce >= 3

\* variant: the test of line 102 is missing
ShouldStop_Never(ce) == FALSE

\* line 102
ShouldStop(ce) == ce >= max_consecutive_errors

\* variant: a failed send is tried again
AfterSendRaise_Retry == "notify"

\* variant: a failed send of an appointment message reaches line 115
AfterSendRaise_TopLevel == "critical"

\* line 84: an exception of send_message is not caught before line 92
AfterSendRaise == "except"

\* variant: the sleep grows with the number of failures
SleepUnits_Backoff(ce) == ce + 1

\* line 110: the sleep, in units of config.check_interval
SleepUnits(ce) == 1

\* variant: line 92 catches the interrupt like any other exception
AfterInterrupt_Caught == "except"

\* lines 92, 112: a KeyboardInterrupt is no Exception; it passes line 92 and
\* is caught at line 112
AfterInterrupt == "userstop"

\* variant: the try of line 118 is missing; a failing send replaces the exception
Reraised_Unguarded(original, sendOutcome) ==
    IF sendOutcome = "raise" THEN "critical-send" ELSE original

\* lines 118-122: the exception that the bare raise of line 122 re-raises
Reraised(original, sendOutcome) == original

(* -------------------------------- state ------------------------------- *)

VARIABLES
    pc,                   \* position in main
    use_enhanced_method,  \* line 51
    consecutive_errors,   \* line 49
    appointments,         \* line 59
    idx,                  \* position of the for loop of line 82
    cycle,                \* number of the current loop iteration (0: before the loop)
    outcome,              \* of the current iteration: "running", "completed", "failed"
    errorsAtStart,        \* consecutive_errors when the iteration began
    primResult,           \* check_appointments this iteration: "none", "empty", "nonempty", "raised"
    fbResult,             \* check_availability this iteration: "none", "returned", "raised"
    primCalls,            \* calls of check_appointments this iteration
    fbCalls,              \* calls of check_availability this iteration
    notified,             \* appointment messages handed to send_message this iteration
    raisedBy,             \* the step whose exception reached line 92: "none", "time", "format", "send"
    warnStreak,           \* "Monitor Warning" sends since consecutive_errors was last 0
    stopSent,             \* "Monitor Stopped" sends
    totalSent,            \* appointment messages handed to send_message since the start
    primaryEverRaised,    \* check_appointments has raised at some time
    uncaughtEver,         \* some iteration reached line 92
    interrupted,          \* a KeyboardInterrupt was delivered
    primReturned,         \* the list check_appointments returned this iteration (empty if none)
    fbReturned,           \* the list check_availability returned this iteration (empty if none)
    escaped,              \* the exception that reached line 115: "none", "startup", "warning", "stopped"
    propagated,           \* the exception that left main: "none", one of escaped, "userstop-send", "critical-send"
    criticalSent,         \* "Critical Error" sends (line 119)
    criticalResult,       \* of the send of line 119: "none", "ok", "raise"
    userStopSent,         \* "stopped by user" sends (line 114)
    sleeps,               \* calls of time.sleep (line 110)
    slept                 \* length of the last sleep, in units of config.check_interval

vars == << pc, use_enhanced_method, consecutive_errors, appointments, idx, cycle,
           outcome, errorsAtStart, primResult, fbResult, primCalls, fbCalls,
           notified, raisedBy, warnStreak, stopSent, totalSent,
           primaryEverRaised, uncaughtEver, interrupted, primReturned, fbReturned,
           escaped, propagated, criticalSent, criticalResult, userStopSent,
           sleeps, slept >>

progVars == << use_enhanced_method, consecutive_errors, appointments, idx >>

cycleGhosts == << outcome, errorsAtStart, primResult, fbResult, primCalls, fbCalls,
                  notified, raisedBy >>

lifeGhosts == << cycle, warnStreak, stopSent, totalSent, primaryEverRaised,
                 uncaughtEver, interrupted >>

listGhosts == << primReturned, fbReturned >>

exitGhosts == << escaped, propagated, criticalSent, criticalResult, userStopSent >>

sleepGhosts == << sleeps, slept >>

Outcomes == {"ok", "raise"}

\* positions inside the while loop of lines 53-110
LoopPcs == {"time", "primary", "fallback", "notify", "except", "warn",
            "stopcheck", "sleep"}

Init ==
    /\ pc = "startup"
    /\ use_enhanced_method = FALSE
    /\ consecutive_errors = 0
    /\ appointments = << >>
    /\ idx = 1
    /\ cycle = 0
    /\ outcome = "running"
    /\ errorsAtStart = 0
    /\ primResult = "none"
    /\ fbResult = "none"
    /\ primCalls = 0
    /\ fbCalls = 0
    /\ notified = << >>
    /\ raisedBy = "none"
    /\ warnStreak = 0
    /\ stopSent = 0
    /\ totalSent = 0
    /\ primaryEverRaised = FALSE
    /\ uncaughtEver = FALSE
    /\ interrupted = FALSE
    /\ primReturned = << >>
    /\ fbReturned = << >>
    /\ escaped = "none"
    /\ propagated = "none"
    /\ criticalSent = 0
    /\ criticalResult = "none"
    /\ userStopSent = 0
    /\ sleeps = 0
    /\ slept = 0

(* ------------------------------- actions ------------------------------ *)

\* lines 36-51: configuration, components, startup message, loop variables
Startup ==
    /\ pc = "startup"
    /\ \E o \in Outcomes :
          IF o = "ok"
          THEN /\ pc' = "time"
               /\ cycle' = 1
          ELSE /\ pc' = "critical"
               /\ cycle' = cycle
    /\ escaped' = IF pc' = "critical" THEN "startup" ELSE escaped
    /\ UNCHANGED << progVars, cycleGhosts, warnStreak, stopSent, totalSent,
                    primaryEverRaised, uncaughtEver, interrupted, listGhosts,
                    propagated, criticalSent, criticalResult, userStopSent,
                    sleepGhosts >>

\* lines 55-59: record the time, start with an empty list
RecordTime ==
    /\ pc = "time"
    /\ \E o \in Outcomes :
          IF o = "ok"
          THEN /\ pc' = "primary"
               /\ appointments' = << >>
               /\ raisedBy' = raisedBy
          ELSE /\ pc' = "except"
               /\ appointments' = appointments
               /\ raisedBy' = "time"
    /\ UNCHANGED << use_enhanced_method, consecutive_errors, idx, outcome,
                    errorsAtStart, primResult, fbResult, primCalls, fbCalls,
                    notified, lifeGhosts, listGhosts, exitGhosts, sleepGhosts >>

\* lines 61-67
CheckPrimary ==
    /\ pc = "primary"
    /\ pc' = "fallback"
    /\ IF ShouldCallPrimary(use_enhanced_method)
       THEN /\ primCalls' = primCalls + 1
            /\ \/ \E r \in CheckerResults :
                     /\ appointments' = r
                     /\ primReturned' = r
                     /\ primResult' = IF r = << >> THEN "empty" ELSE "nonempty"
                     /\ UNCHANGED << use_enhanced_method, primaryEverRaised >>
               \/ /\ use_enhanced_method' = FlagAfterPrimaryRaise(use_enhanced_method)
                  /\ primResult' = "raised"
                  /\ primaryEverRaised' = TRUE
                  /\ UNCHANGED << appointments, primReturned >>
       ELSE UNCHANGED << primCalls, appointments, primResult, use_enhanced_method,
                         primaryEverRaised, primReturned >>
    /\ UNCHANGED << consecutive_errors, idx, cycle, outcome, errorsAtStart, fbResult,
                    fbCalls, notified, raisedBy, warnStreak, stopSent, totalSent,
                    uncaughtEver, interrupted, fbReturned, exitGhosts,
                    sleepGhosts >>

\* lines 69-76
CheckFallback ==
    /\ pc = "fallback"
    /\ IF ShouldCallFallback(use_enhanced_method, appointments)
       THEN /\ fbCalls' = fbCalls + 1
            /\ \/ \E r \in CheckerResults :
                     /\ appointments' = Extend(appointments, r)
                     /\ fbReturned' = r
                     /\ fbResult' = "returned"
                     /\ pc' = "notify"
               \/ /\ fbResult' = "raised"
                  /\ pc' = AfterFallbackRaise
                  /\ UNCHANGED << appointments, fbReturned >>
       ELSE /\ pc' = "notify"
            /\ UNCHANGED << fbCalls, appointments, fbResult, fbReturned >>
    /\ idx' = 1
    /\ raisedBy' = IF pc' = "except" THEN "fallback" ELSE raisedBy
    /\ UNCHANGED << use_enhanced_method, consecutive_errors, outcome, errorsAtStart,
                    primResult, primCalls, notified, lifeGhosts, primReturned,
                    exitGhosts, sleepGhosts >>

\* lines 82-85: format one record and send it
NotifyOne ==
    /\ pc = "notify"
    /\ idx <= Len(appointments)
    /\ IF FormatRaises(appointments[idx])
       THEN /\ pc' = "except"
            /\ raisedBy' = "format"
            /\ UNCHANGED << idx, notified, totalSent >>
       ELSE /\ notified' = Append(notified, format_appointment_message(appointments[idx]))
            /\ totalSent' = totalSent + 1
            /\ \E o \in Outcomes :
                  IF o = "ok"
                  THEN /\ idx' = NextIndex(idx)
                       /\ pc' = "notify"
                       /\ raisedBy' = raisedBy
                  ELSE /\ idx' = idx
                       /\ pc' = AfterSendRaise
                       /\ raisedBy' = "send"
    /\ UNCHANGED << use_enhanced_method, consecutive_errors, appointments, cycle,
                    outcome, errorsAtStart, primResult, fbResult, primCalls, fbCalls,
                    warnStreak, stopSent, primaryEverRaised, uncaughtEver,
                    interrupted, listGhosts, exitGhosts, sleepGhosts >>

\* lines 78, 86-90: the list is exhausted (or was empty); the cycle succeeded
CycleEnd ==
    /\ pc = "notify"
    /\ idx > Len(appointments)
    /\ consecutive_errors' = ErrorsAfterSuccess(consecutive_errors)
    /\ warnStreak' = IF consecutive_errors' = 0 THEN 0 ELSE warnStreak
    /\ outcome' = "completed"
    /\ pc' = "sleep"
    /\ UNCHANGED << use_enhanced_method, appointments, idx, cycle, errorsAtStart,
                    primResult, fbResult, primCalls, fbCalls, notified, raisedBy,
                    stopSent, totalSent, primaryEverRaised, uncaughtEver,
                    interrupted, listGhosts, exitGhosts, sleepGhosts >>

\* lines 92-95
Except ==
    /\ pc = "except"
    /\ consecutive_errors' = ErrorsAfterFailure(consecutive_errors)
    /\ outcome' = "failed"
    /\ uncaughtEver' = TRUE
    /\ pc' = "warn"
    /\ UNCHANGED << use_enhanced_method, appointments, idx, cycle, errorsAtStart,
                    primResult, fbResult, primCalls, fbCalls, notified, raisedBy,
                    warnStreak, stopSent, totalSent, primaryEverRaised,
                    interrupted, listGhosts, exitGhosts, sleepGhosts >>

\* lines 98-99
Warn ==
    /\ pc = "warn"
    /\ IF ShouldWarn(consecutive_errors)
       THEN /\ warnStreak' = warnStreak + 1
            /\ \E o \in Outcomes :
                  pc' = IF o = "ok" THEN "stopcheck" ELSE "critical"
       ELSE /\ pc' = "stopcheck"
            /\ UNCHANGED warnStreak
    /\ escaped' = IF pc' = "critical" THEN "warning" ELSE escaped
    /\ UNCHANGED << progVars, cycleGhosts, cycle, stopSent, totalSent,
                    primaryEverRaised, uncaughtEver, interrupted, listGhosts,
                    propagated, criticalSent, criticalResult, userStopSent,
                    sleepGhosts >>

\* lines 102-106
StopCheck ==
    /\ pc = "stopcheck"
    /\ IF ShouldStop(consecutive_errors)
       THEN /\ stopSent' = stopSent + 1
            /\ \E o \in Outcomes :
                  pc' = IF o = "ok" THEN "done" ELSE "critical"
       ELSE /\ pc' = "sleep"
            /\ UNCHANGED stopSent
    /\ escaped' = IF pc' = "critical" THEN "stopped" ELSE escaped
    /\ UNCHANGED << progVars, cycleGhosts, cycle, warnStreak, totalSent,
                    primaryEverRaised, uncaughtEver, interrupted, listGhosts,
                    propagated, criticalSent, criticalResult, userStopSent,
                    sleepGhosts >>

\* lines 109-110, then back to line 53
Sleep ==
    /\ pc = "sleep"
    /\ cycle < MaxCycles
    /\ pc' = "time"
    /\ cycle' = cycle + 1
    /\ outcome' = "running"
    /\ errorsAtStart' = consecutive_errors
    /\ primResult' = "none"
    /\ fbResult' = "none"
    /\ primCalls' = 0
    /\ fbCalls' = 0
    /\ notified' = << >>
    /\ raisedBy' = "none"
    /\ primReturned' = << >>
    /\ fbReturned' = << >>
    /\ sleeps' = sleeps + 1
    /\ slept' = SleepUnits(consecutive_errors)
    /\ UNCHANGED << progVars, warnStreak, stopSent, totalSent, primaryEverRaised,
                    uncaughtEver, interrupted, exitGhosts >>

\* a KeyboardInterrupt is delivered inside the loop; it is no Exception, so
\* neither line 64, 75 nor 92 catches it
Interrupt ==
    /\ pc \in LoopPcs
    /\ pc' = AfterInterrupt
    /\ interrupted' = TRUE
    /\ UNCHANGED << progVars, cycleGhosts, cycle, warnStreak, stopSent, totalSent,
                    primaryEverRaised, uncaughtEver, listGhosts, exitGhosts,
                    sleepGhosts >>

\* lines 112-114
UserStop ==
    /\ pc = "userstop"
    /\ userStopSent' = userStopSent + 1
    /\ \E o \in Outcomes :
          IF o = "ok"
          THEN /\ pc' = "exited"
               /\ propagated' = propagated
          ELSE /\ pc' = "crashed"
               /\ propagated' = "userstop-send"
    /\ UNCHANGED << progVars, cycleGhosts, lifeGhosts, listGhosts, escaped,
                    criticalSent, criticalResult, sleepGhosts >>

\* lines 115-122
Critical ==
    /\ pc = "critical"
    /\ criticalSent' = criticalSent + 1
    /\ \E o \in Outcomes :
          /\ criticalResult' = o
          /\ propagated' = Reraised(escaped, o)
    /\ pc' = "crashed"
    /\ UNCHANGED << progVars, cycleGhosts, lifeGhosts, listGhosts, escaped,
                    userStopSent, sleepGhosts >>

Next ==
    \/ Startup
    \/ RecordTime
    \/ CheckPrimary
    \/ CheckFallback
    \/ NotifyOne
    \/ CycleEnd
    \/ Except
    \/ Warn
    \/ StopCheck
    \/ Sleep
    \/ Interrupt
    \/ UserStop
    \/ Critical

Spec == Init /\ [][Next]_vars

\* the steps of the program itself (an interrupt comes from outside)
Step ==
    \/ Startup
    \/ RecordTime
    \/ CheckPrimary
    \/ CheckFallback
    \/ NotifyOne
    \/ CycleEnd
    \/ Except
    \/ Warn
    \/ StopCheck
    \/ Sleep
    \/ UserStop
    \/ Critical

\* the process is sequential and every call returns or raises: whenever it
\* has a next step it takes one
LiveSpec == Init /\ [][Next]_vars /\ WF_vars(Step)

(* ----------------------- the formatter on its own --------------------- *)

\* the values a field of a record handed to the formatter may hold: the key
\* is missing, or holds the empty string, or a text
TextValues == {Absent, "", "text"}

ConfidenceValues == {Absent, "", "low", "medium", "high", NotAString}

\* every combination of the seven optional fields
FormatterRecords ==
    [location : TextValues, date : TextValues, time : TextValues,
     link : TextValues, confidence : ConfidenceValues, source : TextValues,
     note : TextValues]

InitFormatter ==
    /\ pc = "format"
    /\ appointments \in {<< r >> : r \in FormatterRecords}
    /\ use_enhanced_method = FALSE
    /\ consecutive_errors = 0
    /\ idx = 1
    /\ cycle = 0
    /\ outcome = "running"
    /\ errorsAtStart = 0
    /\ primResult = "none"
    /\ fbResult = "none"
    /\ primCalls = 0
    /\ fbCalls = 0
    /\ notified = << >>
    /\ raisedBy = "none"
    /\ warnStreak = 0
    /\ stopSent = 0
    /\ totalSent = 0
    /\ primaryEverRaised = FALSE
    /\ uncaughtEver = FALSE
    /\ interrupted = FALSE
    /\ primReturned = << >>
    /\ fbReturned = << >>
    /\ escaped = "none"
    /\ propagated = "none"
    /\ criticalSent = 0
    /\ criticalResult = "none"
    /\ userStopSent = 0
    /\ sleeps = 0
    /\ slept = 0

\* lines 124-154: one call of format_appointment_message(appointments[1]);
\* the message returned is kept in notified
FormatCall ==
    /\ pc = "format"
    /\ IF FormatRaises(appointments[idx])
       THEN /\ pc' = "format-raised"
            /\ raisedBy' = "format"
            /\ UNCHANGED notified
       ELSE /\ pc' = "format-returned"
            /\ notified' = << format_appointment_message(appointments[idx]) >>
            /\ UNCHANGED raisedBy
    /\ UNCHANGED << progVars, outcome, errorsAtStart, primResult, fbResult,
                    primCalls, fbCalls, lifeGhosts, listGhosts, exitGhosts,
                    sleepGhosts >>

NextFormatter == FormatCall

SpecFormatter == InitFormatter /\ [][NextFormatter]_vars

TypeOK ==
    /\ pc \in LoopPcs \cup {"startup", "userstop", "critical", "done", "exited", "crashed"}
    /\ use_enhanced_method \in BOOLEAN
    /\ consecutive_errors \in 0..max_consecutive_errors
    /\ appointments \in SeqsUpTo(LoopRecords, 2 * MaxLen)
    /\ idx \in 1..(2 * MaxLen + 1)
    /\ cycle \in 0..MaxCycles


(* ------------------------------ properties ---------------------------- *)

\* the current iteration has completed lines 55-90
Completed == pc = "sleep" /\ outcome = "completed"

\* the messages of a list of records, in list order
Formatted(appts) == [i \in 1..Len(appts) |-> format_appointment_message(appts[i])]

\* C1: in a cycle where check_appointments was called (use_enhanced_method
\* false) and returned a non-empty list, check_availability is not called.
C1_NoFallbackAfterNonEmptyPrimary ==
    primResult = "nonempty" => fbCalls = 0 /\ fbResult = "none"

C1_Witness ==
    /\ Completed
    /\ primResult = "nonempty"
    /\ ~use_enhanced_method
    /\ Len(notified) = MaxLen

\* C2: use_enhanced_method is false before the first cycle, is true in every
\* state after check_appointments has raised, and no step takes it from true
\* to false.
C2_OneWayFlag ==
    /\ [](cycle = 0 => ~use_enhanced_method)
    /\ [](primaryEverRaised => use_enhanced_method)
    /\ [][use_enhanced_method => use_enhanced_method']_vars

C2_Witness ==
    /\ primaryEverRaised
    /\ use_enhanced_method
    /\ primResult = "none"
    /\ cycle >= 3
    /\ Completed

\* C3: when a cycle reaches line 90, consecutive_errors is 0 afterwards,
\* whatever it was when the cycle began and also when check_availability
\* raised in that cycle.
C3_ResetOnCompletedCycle ==
    Completed => consecutive_errors = 0

C3_Witness ==
    /\ Completed
    /\ errorsAtStart = max_consecutive_errors - 1
    /\ fbResult = "raised"
    /\ consecutive_errors = 0

\* C4: the loop leaves through the break of line 106 only in a failing cycle
\* whose increment brought consecutive_errors from 4 to 5; once the counter is
\* 5 the loop ends in that cycle: no checker is called, no new cycle begins
\* and the loop never sleeps again.
C4_StopExactlyAtFive ==
    /\ [](pc = "done" =>
            /\ consecutive_errors = max_consecutive_errors
            /\ errorsAtStart = max_consecutive_errors - 1
            /\ outcome = "failed")
    /\ [](consecutive_errors = max_consecutive_errors =>
            pc \notin {"time", "primary", "fallback", "notify", "except", "sleep"})
    /\ [][consecutive_errors = max_consecutive_errors =>
            /\ cycle' = cycle
            /\ primCalls' = primCalls
            /\ fbCalls' = fbCalls
            /\ consecutive_errors' = consecutive_errors]_vars

C4_Witness ==
    /\ pc = "done"
    /\ consecutive_errors = max_consecutive_errors
    /\ cycle = max_consecutive_errors

\* the loop has been entered and left, or is being left, without an interrupt
LoopEnded ==
    /\ cycle >= 1
    /\ ~interrupted
    /\ pc \in {"done", "critical", "crashed"}

\* C5: the loop ends only with consecutive_errors at the threshold or by an
\* interrupt; no failing checker, formatter or send ends it below 5.
C5_EndsOnlyAtThreshold ==
    LoopEnded => consecutive_errors >= max_consecutive_errors

\* C6 as stated: at most one warning per failure streak, so that a streak of
\* five failing cycles has sent exactly one warning when the loop stops.
C6_WarnOncePerStreak ==
    /\ warnStreak <= 1
    /\ pc = "done" => warnStreak = 1

\* the failure handler of this cycle is past line 99
PastWarn == pc = "stopcheck" \/ pc = "done" \/ (pc = "sleep" /\ outcome = "failed")

\* C6 amended: a warning is handed to the notifier in every failing cycle
\* that leaves consecutive_errors at 3 or more, that is at 3, at 4 and at 5,
\* once in each; a streak that reaches the stop has had three warnings.
C6_WarnEveryFailureFromThree ==
    /\ PastWarn =>
          warnStreak = IF consecutive_errors >= 3 THEN consecutive_errors - 2 ELSE 0
    /\ pc = "done" => warnStreak = 3
    /\ consecutive_errors = 0 => warnStreak = 0

C6_Witness ==
    /\ pc = "done"
    /\ warnStreak = 3
    /\ stopSent = 1

\* C7: "Monitor Stopped" is handed to the notifier at most once, only in the
\* failing cycle that brought consecutive_errors to 5, always before the
\* break, and nothing of the loop follows it: no checker call, no appointment
\* message, no warning, no new cycle.
C7_StopNotificationLast ==
    /\ [](stopSent <= 1)
    /\ [](stopSent = 1 =>
            /\ consecutive_errors = max_consecutive_errors
            /\ outcome = "failed"
            /\ pc \in {"done", "critical", "crashed"})
    /\ [](pc = "done" => stopSent = 1)
    /\ [][stopSent = 1 =>
            UNCHANGED << primCalls, fbCalls, notified, totalSent, warnStreak,
                         cycle, stopSent >>]_vars

C7_Witness ==
    /\ pc = "done"
    /\ stopSent = 1
    /\ errorsAtStart = max_consecutive_errors - 1

\* the current cycle is past the checker calls of lines 61-76
PastCheckers == pc = "notify" \/ Completed \/ raisedBy \in {"format", "send"}

\* C8: in the cycle where check_appointments raises it is called once only
\* and check_availability is called in that cycle; in every cycle with the
\* flag set that gets to the checkers, check_availability is called exactly
\* once (and check_appointments is never called twice in a cycle).
C8_FallbackFromRaisingCycleOn ==
    /\ primCalls <= 1
    /\ fbCalls <= 1
    /\ (PastCheckers /\ primResult = "raised") => (primCalls = 1 /\ fbCalls = 1)
    /\ (PastCheckers /\ use_enhanced_method) => fbCalls = 1
    /\ (raisedBy = "time") => fbCalls = 0

C8_Witness ==
    /\ pc = "notify"
    /\ cycle >= 3
    /\ primaryEverRaised
    /\ primResult = "none"
    /\ primCalls = 0
    /\ fbCalls = 1

\* C9: consecutive_errors increases only in a cycle where a step other than
\* a checker raised; a cycle where a checker raised and nothing else did
\* completes with consecutive_errors 0 and with every collected record
\* notified; the loop stops only after such another step has raised.
C9_CheckerFailuresNotCounted ==
    /\ [][consecutive_errors' > consecutive_errors =>
            raisedBy \in {"time", "format", "send"}]_vars
    /\ []((pc = "sleep" /\ raisedBy = "none"
            /\ (primResult = "raised" \/ fbResult = "raised")) =>
            /\ outcome = "completed"
            /\ consecutive_errors = 0
            /\ notified = Formatted(appointments))
    /\ [](pc = "done" => raisedBy \in {"time", "format", "send"})
    /\ []((fbResult = "raised" /\ pc \in {"notify", "sleep"}) =>
            consecutive_errors = IF pc = "notify" THEN errorsAtStart ELSE 0)

C9_Witness ==
    /\ Completed
    /\ primResult = "raised"
    /\ fbResult = "raised"
    /\ errorsAtStart > 0
    /\ consecutive_errors = 0

\* C10: when a cycle completes, the appointment messages handed to the
\* notifier in it are the formatted records of the combined list, one each
\* and in list order; none when the list is empty.
C10_OneNotificationPerRecord ==
    /\ Completed => notified = Formatted(appointments)
    /\ (Completed /\ appointments = << >>) => notified = << >>
    /\ Len(notified) <= totalSent

\* three cycles without a record, then one record from the primary checker:
\* one message in total
C10_Witness ==
    /\ Completed
    /\ cycle = 4
    /\ ~uncaughtEver
    /\ ~use_enhanced_method
    /\ primResult = "nonempty"
    /\ totalSent = 1
    /\ notified = << format_appointment_message(ScenarioRecord) >>


\* C11: every record of the list is handed to the notifier at most once in
\* a cycle, in list order, and after a send has raised nothing more is sent
\* in that cycle: the failed record is not sent again.
C11_NoResendAfterFailure ==
    /\ [](Len(notified) <= Len(appointments))
    /\ [](notified = Formatted(SubSeq(appointments, 1, Len(notified))))
    /\ [](raisedBy = "send" => Len(notified) = idx)
    /\ [][raisedBy = "send" =>
            /\ notified' = notified \/ notified' = << >>
            /\ totalSent' = totalSent]_vars

C11_Witness ==
    /\ pc = "sleep"
    /\ outcome = "failed"
    /\ raisedBy = "send"
    /\ Len(appointments) = MaxLen
    /\ Len(notified) = MaxLen

\* C12: an exception that reaches line 115 leads to one "Critical Error"
\* send, and main then raises that same exception, whether the send
\* returned or raised.
C12_CriticalOnceOriginalReraised ==
    /\ criticalSent <= 1
    /\ escaped = "none" => criticalSent = 0
    /\ pc = "critical" => (escaped # "none" /\ criticalSent = 0)
    /\ (pc = "crashed" /\ escaped # "none") =>
          /\ criticalSent = 1
          /\ criticalResult \in Outcomes
          /\ propagated = escaped

C12_Witness ==
    /\ pc = "crashed"
    /\ escaped = "warning"
    /\ criticalResult = "raise"
    /\ propagated = "warning"

\* C13 as stated: an exception leaves main only when an exception reached
\* line 115 and the send reporting it failed as well.
C13_CrashOnlyOnDoubleFault ==
    pc = "crashed" => (escaped # "none" /\ criticalResult = "raise")

\* C13 amended: an exception leaves main when an exception reached line 115
\* (from the startup steps or from a send of lines 99 and 105), whether the
\* send reporting it returned or raised, or when the send of line 114 raised
\* after an interrupt; nothing else reaches line 115 or leaves main.
C13_CrashPaths ==
    /\ [](pc = "crashed" =>
            \/ /\ escaped \in {"startup", "warning", "stopped"}
               /\ criticalSent = 1
               /\ propagated = escaped
               /\ ~interrupted
            \/ /\ interrupted
               /\ escaped = "none"
               /\ propagated = "userstop-send")
    /\ [](escaped # "none" => pc \in {"critical", "crashed"})
    /\ [][(pc' = "critical" /\ pc # "critical") =>
            pc \in {"startup", "warn", "stopcheck"}]_vars
    /\ [][(pc' = "crashed" /\ pc # "crashed") =>
            pc \in {"critical", "userstop"}]_vars

C13_Witness ==
    /\ pc = "crashed"
    /\ escaped = "stopped"
    /\ criticalResult = "ok"
    /\ propagated = "stopped"

\* C14: an interrupt can be delivered at every position of the loop; from
\* then on consecutive_errors does not change, no warning, stop or
\* appointment message is sent, no checker is called and no cycle begins;
\* "stopped by user" is handed to the notifier once, and only then.
C14_InterruptEndsLoopQuietly ==
    /\ [](pc \in LoopPcs => ENABLED Interrupt)
    /\ [](interrupted => pc \in {"userstop", "exited", "crashed"})
    /\ [][interrupted' =>
            UNCHANGED << consecutive_errors, warnStreak, stopSent, primCalls,
                         fbCalls, cycle, totalSent, criticalSent >>]_vars
    /\ [](userStopSent <= 1)
    /\ [](userStopSent = 1 <=> (interrupted /\ pc \in {"exited", "crashed"}))

C14_Witness ==
    /\ pc = "exited"
    /\ userStopSent = 1
    /\ outcome = "failed"
    /\ consecutive_errors = max_consecutive_errors - 1
    /\ warnStreak = 2
    /\ stopSent = 0

\* C15: one sleep of the configured interval between consecutive cycles,
\* whatever consecutive_errors is, and a failed cycle that leaves
\* consecutive_errors below 5 goes on to the sleep (unless interrupted).
C15_OneFixedSleepBetweenCycles ==
    /\ cycle >= 1 => sleeps = cycle - 1
    /\ sleeps >= 1 => slept = 1
    /\ (outcome = "failed" /\ consecutive_errors < max_consecutive_errors
          /\ ~interrupted) => pc \in {"warn", "stopcheck", "sleep"}

\* the part of C15 that is about the sleep alone
SleepsAreFixed ==
    /\ cycle >= 1 => sleeps = cycle - 1
    /\ sleeps >= 1 => slept = 1


\* from the cycle numbered MaxCycles - 4 on no cycle completes: the last five
\* cycles explored each raise an uncaught exception
FailingFromSomeCycleOn ==
    [](Completed => cycle <= MaxCycles - max_consecutive_errors)

\* the startup and the sends of lines 99 and 105 return normally
HandlerSendsReturn == [](pc # "critical")

\* C16: if from some cycle on every cycle raises an uncaught exception, the
\* sends of the failure handler return and no interrupt arrives, the loop
\* eventually stops through line 106, in a cycle that began with
\* consecutive_errors 4; and a cycle that completes after one to four failed
\* cycles leaves the loop running with consecutive_errors 0.
C16_FiveFailuresStopTheLoop ==
    /\ (FailingFromSomeCycleOn /\ HandlerSendsReturn /\ [](~interrupted))
          => <>(pc = "done")
    /\ [](pc = "done" => (errorsAtStart = max_consecutive_errors - 1 /\ stopSent = 1))
    /\ []((Completed /\ errorsAtStart \in 1..(max_consecutive_errors - 1)) =>
            (consecutive_errors = 0 /\ stopSent = 0 /\ ENABLED Interrupt))

C16_Witness ==
    /\ pc = "done"
    /\ cycle = MaxCycles
    /\ raisedBy = "format"
    /\ warnStreak = 3
    /\ criticalSent = 0


\* the message has a line with one of these labels
HasLine(message, labels) == \E i \in 1..Len(message) : message[i][1] \in labels

\* the text of the line with this label
LineText(message, label) ==
    LET i == CHOOSE j \in 1..Len(message) : message[j][1] = label IN message[i][2]

ConfidenceLabels == {"red Confidence", "yellow Confidence", "green Confidence"}

\* the defaults of the first three lines
DefaultsApplied(record, message) ==
    /\ record["location"] = Absent => LineText(message, "Location") = "Italy Visa Center Morocco"
    /\ record["date"] = Absent => LineText(message, "Date") = "Not specified"
    /\ record["time"] = Absent => LineText(message, "Time") = "Not specified"

\* C17 as stated: the formatter never raises, applies the defaults, and the
\* confidence, source and note lines are there exactly when the field is
\* present.
C17_NeverRaisesLinesWhenPresent ==
    /\ pc # "format-raised"
    /\ pc = "format-returned" =>
          LET record == appointments[1]
              message == notified[1]
          IN  /\ DefaultsApplied(record, message)
              /\ HasLine(message, ConfidenceLabels) <=> record["confidence"] # Absent
              /\ HasLine(message, {"Source"}) <=> record["source"] # Absent
              /\ HasLine(message, {"Note"}) <=> record["note"] # Absent

\* C17 amended: the formatter raises only for a present, non-empty confidence
\* that is not a string; otherwise it applies the defaults, and the
\* confidence, source and note lines are there exactly when the field is
\* present with a non-empty value; the empty record has none of them.
C17_DefaultsAndLinesWhenNonEmpty ==
    /\ pc = "format-raised" <=>
          (pc # "format" /\ appointments[1]["confidence"] = NotAString)
    /\ pc = "format-returned" =>
          LET record == appointments[1]
              message == notified[1]
          IN  /\ DefaultsApplied(record, message)
              /\ HasLine(message, ConfidenceLabels) <=> record["confidence"] \notin {Absent, ""}
              /\ HasLine(message, {"Source"}) <=> record["source"] \notin {Absent, ""}
              /\ HasLine(message, {"Note"}) <=> record["note"] \notin {Absent, ""}
              /\ record = EmptyRecord =>
                    ~HasLine(message, ConfidenceLabels \cup {"Source", "Note"})

C17_Witness ==
    /\ pc = "format-returned"
    /\ appointments[1]["location"] = Absent
    /\ appointments[1]["confidence"] = "high"
    /\ appointments[1]["note"] = ""
    /\ HasLine(notified[1], {"green Confidence"})
    /\ ~HasLine(notified[1], {"Note"})


\* C18: the flag is set only by a step in which check_appointments raised;
\* a cycle whose primary call returned (empty or not) keeps the flag false,
\* calls the fallback when the list was empty, and every cycle that gets to
\* line 61 with the flag false calls the primary checker; with the flag true
\* the primary checker is never called.
C18_FlagOnlyOnPrimaryRaise ==
    /\ [](use_enhanced_method => primaryEverRaised)
    /\ [][(~use_enhanced_method /\ use_enhanced_method') =>
            (primResult' = "raised" /\ primCalls' = primCalls + 1)]_vars
    /\ [](primResult \in {"empty", "nonempty"} => ~use_enhanced_method)
    /\ []((PastCheckers /\ primResult = "empty") => fbCalls = 1)
    /\ []((pc = "fallback" /\ ~use_enhanced_method) => primCalls = 1)
    /\ [][use_enhanced_method => primCalls' <= primCalls]_vars

\* the second cycle calls the primary checker again after a first cycle in
\* which it returned the empty list
C18_Witness ==
    /\ cycle = 2
    /\ pc = "fallback"
    /\ ~use_enhanced_method
    /\ primCalls = 1
    /\ totalSent = 0
    /\ ~uncaughtEver

\* C19: check_availability is called only with an empty list, so after the
\* checkers the list is the non-empty primary result and nothing else, or
\* the fallback result and nothing else.
C19_RecordsFromOneChecker ==
    /\ [][fbCalls' = fbCalls + 1 => appointments = << >>]_vars
    /\ [](PastCheckers =>
            IF primResult = "nonempty"
            THEN appointments = primReturned /\ fbCalls = 0 /\ fbReturned = << >>
            ELSE appointments = fbReturned /\ primReturned = << >>)

C19_Witness ==
    /\ Completed
    /\ primResult = "empty"
    /\ fbResult = "returned"
    /\ Len(fbReturned) = MaxLen
    /\ appointments = fbReturned
    /\ Len(notified) = MaxLen

\* C20: consecutive_errors stays in 0..5; a step leaves it, resets it to 0
\* or adds 1, and a cycle ends with 0 (completed) or with one more than it
\* began with (failed); it is 5 only in the handler of the stopping cycle and
\* after the loop has ended.
C20_CounterRange ==
    /\ [](consecutive_errors \in 0..max_consecutive_errors)
    /\ [][\/ consecutive_errors' = consecutive_errors
          \/ consecutive_errors' = 0
          \/ consecutive_errors' = consecutive_errors + 1]_vars
    /\ [](pc = "sleep" =>
            \/ (outcome = "completed" /\ consecutive_errors = 0)
            \/ (outcome = "failed" /\ consecutive_errors = errorsAtStart + 1))
    /\ [](consecutive_errors = max_consecutive_errors =>
            /\ pc \in {"warn", "stopcheck", "done", "critical", "crashed",
                       "userstop", "exited"}
            /\ errorsAtStart = max_consecutive_errors - 1)

C20_Witness ==
    /\ pc = "stopcheck"
    /\ consecutive_errors = max_consecutive_errors
    /\ warnStreak = 3
    /\ stopSent = 0

====
